---- MODULE Spec2Model ----
(***************************************************************************)
(* ExchangeBundle (catalyst/exchange/exchange_bundle.py): range            *)
(* resolution, chunk planning, existence check, forward-fill               *)
(* reconciliation and persistence of exchange candles.                     *)
(*                                                                         *)
(* Timestamps are whole minutes (integers).  A candle is the record        *)
(* [last_traded, close]; the store keeps, per sid, the close recorded at   *)
(* each written minute.                                                    *)
(***************************************************************************)
EXTENDS Integers, Sequences, FiniteSets, TLC

\* ---------------------------------------------------------------- bounds
MaxTime == 4
MaxLimit == 2
MaxRuns == 2
MaxProbe == 2

\* ------------------------------------------------------------- constants
MinutesPerDay == 1440

Assets == {1, 2}
AssetList == <<1, 2>>
Frequencies == {"minute", "daily", "hourly"}

NaN == -1
Raised == -2
None == [last_traded |-> -1, close |-> -1]

VARIABLES
    data_frequency,     \* self.data_frequency
    start_date,         \* asset.start_date, by sid
    num_candles_limit,  \* self.exchange.num_candles_limit
    request_cpt,        \* self.exchange.request_cpt
    reqStart, reqEnd,   \* the (start, end) handed to the constructor
    now,                \* pd.Timestamp.utcnow() at construction
    start, end,         \* self.start, self.end
    _reader, _writer,   \* the cached handles (FALSE: None)
    on_disk,            \* the bundle directory holds an initialised store
    store,              \* sid -> (minute -> close) of the rows written
    market,             \* the exchange's candles, as far as they were served
    pc,                 \* position of the caller / of ingest()
    err,                \* the exception that ended the run
    chunks, idx,        \* ingest(): the plan and the loop position (1-based)
    previous_candle,    \* ingest(): sid -> last known candle
    candles,            \* ingest(): the fetched candles of the current chunk
    data,               \* ingest(): the (sid, df) pairs of the current chunk
    run,                \* number of the ingest() call
    log,                \* what this run did, in order (see Event)
    completed,          \* the run in which ingest() first returned (0: none)
    snapshot,           \* the store when ingest() first returned normally
    ret                 \* a direct call of check_data_exists: arguments, result

vars == <<data_frequency, start_date, num_candles_limit, request_cpt,
          reqStart, reqEnd, now, start, end, _reader, _writer, on_disk,
          store, market, pc, err, chunks, idx, previous_candle, candles,
          data, run, log, completed, snapshot, ret>>

\* ------------------------------------------------------------- helpers
EmptyFn == [x \in {} |-> 0]
EmptyStore == [a \in Assets |-> EmptyFn]
EmptyMarket == [a \in Assets |-> [seen |-> {}, has |-> {}]]
NoCarry == [a \in Assets |-> None]

\* Length in minutes of one period of a frequency.
Period(freq) ==
    IF freq = "daily" THEN MinutesPerDay ELSE 1

\* The close the exchange reports for sid a at minute t.
ClosePrice(a, t) == 10000 * a + t

Candle(a, t) == [last_traded |-> t, close |-> ClosePrice(a, t)]

\* chunks.reverse() left out: the list stays as it was built.
KeepOrder(s) == s

\* line 213: list.reverse()
RECURSIVE Reverse(_)
Reverse(s) ==
    IF s = <<>> THEN <<>> ELSE Append(Reverse(Tail(s)), Head(s))

SeqToSet(s) == {s[i] : i \in 1..Len(s)}

\* ------------------------------------------------------ get_adj_dates
\* lines 59-62: the earliest asset.start_date.
EarliestTrade(sd) ==
    CHOOSE m \in {sd[a] : a \in Assets} : \A a \in Assets : m <= sd[a]

\* get_adj_dates without the clamp of the end to now.
AdjDatesNoClamp(s, e, n, sd) ==
    LET earliest_trade == EarliestTrade(sd)
        s1 == IF earliest_trade > s THEN earliest_trade ELSE s
    IN  IF s1 >= e
        THEN [ok |-> FALSE, start |-> s1, end |-> e]
        ELSE [ok |-> TRUE, start |-> s1, end |-> e]

\* get_adj_dates with the test of line 71 as start > end: an empty range
\* is let through.
AdjDatesAllowsEmpty(s, e, n, sd) ==
    LET e1 == IF e > n THEN n ELSE e
        earliest_trade == EarliestTrade(sd)
        s1 == IF earliest_trade > s THEN earliest_trade ELSE s
    IN  IF s1 > e1
        THEN [ok |-> FALSE, start |-> s1, end |-> e1]
        ELSE [ok |-> TRUE, start |-> s1, end |-> e1]

\* lines 53-74: the adjusted (start, end), or the ValueError.
AdjDates(s, e, n, sd) ==
    LET e1 == IF e > n THEN n ELSE e
        earliest_trade == EarliestTrade(sd)
        s1 == IF earliest_trade > s THEN earliest_trade ELSE s
    IN  IF s1 >= e1
        THEN [ok |-> FALSE, start |-> s1, end |-> e1]
        ELSE [ok |-> TRUE, start |-> s1, end |-> e1]

\* ------------------------------------------------------------ planning
\* lines 187-197: delta_periods.  The ranges of a daily bundle are whole
\* days here, so the division is exact.
DeltaPeriods(freq, s, e) ==
    IF freq = "minute" THEN e - s ELSE (e - s) \div MinutesPerDay

\* lines 204-211: the loop, newest chunk first.
RECURSIVE PlanWalk(_, _, _)
PlanWalk(last_chunk_date, s, bar_count) ==
    IF last_chunk_date > s + bar_count
    THEN <<[end |-> last_chunk_date, bar_count |-> bar_count]>>
         \o PlanWalk(last_chunk_date - (bar_count + 1), s, bar_count)
    ELSE <<>>

\* The plan without line 213: the chunks stay newest first.
PlanChunksNoReverse(freq, s, e, limit) ==
    IF DeltaPeriods(freq, s, e) > limit
    THEN PlanWalk(e, s, limit)
    ELSE <<[end |-> e, bar_count |-> DeltaPeriods(freq, s, e)]>>

\* The plan without the test of line 199: one chunk for the whole range.
PlanChunksUnsplit(freq, s, e, limit) ==
    <<[end |-> e, bar_count |-> DeltaPeriods(freq, s, e)]>>

\* lines 199-216: the plan, oldest chunk first.
PlanChunks(freq, s, e, limit) ==
    IF DeltaPeriods(freq, s, e) > limit
    THEN Reverse(PlanWalk(e, s, limit))
    ELSE <<[end |-> e, bar_count |-> DeltaPeriods(freq, s, e)]>>

\* line 229
ChunkStart(chunk) == chunk.end - chunk.bar_count

\* lines 268-269, 284: the minutes the reconciler walks for a chunk.
Window(chunk) == ChunkStart(chunk)..chunk.end

\* The chunk's assets without the test of line 233: all the assets.
ChunkAssetsAll(chunk) == AssetList

\* lines 231-234
ChunkAssets(chunk) ==
    SelectSeq(AssetList, LAMBDA a : start_date[a] <= chunk.end)

\* ------------------------------------------------------- the store
\* reader.get_value(sid, dt, 'close'): the recorded close; a minute with
\* no row reads as NaN or, when the reader faults on it, raises.
GetValue(sid, dt, faults) ==
    IF dt \in DOMAIN store[sid] THEN store[sid][dt]
    ELSE IF faults THEN Raised ELSE NaN

\* lines 76-103: the reader property: the cached handle, or a handle
\* opened now, which exists only over an initialised store.
Reader == _reader \/ on_disk

\* One asset of check_data_exists without the read of the end.
AssetHasDataStartOnly(sid, s, e, faults) ==
    LET start_close == GetValue(sid, s, faults)
    IN  IF start_close = Raised THEN FALSE
        ELSE start_close # NaN

\* lines 153-168: one asset of check_data_exists.
AssetHasData(sid, s, e, faults) ==
    LET start_close == GetValue(sid, s, faults)
    IN  IF start_close = Raised THEN FALSE
        ELSE IF start_close = NaN THEN FALSE
        ELSE LET end_close == GetValue(sid, e, faults)
             IN  IF end_close = Raised THEN FALSE
                 ELSE end_close # NaN

\* lines 150-173: the loop over the assets.
RECURSIVE CheckLoop(_, _, _, _, _, _)
CheckLoop(assets, i, has_data, s, e, faults) ==
    IF i > Len(assets) THEN has_data
    ELSE CheckLoop(assets, i + 1,
                   IF has_data /\ Reader
                   THEN AssetHasData(assets[i], s, e, faults)
                   ELSE FALSE,
                   s, e, faults)

\* lines 149-173
CheckDataExists(assets, s, e, faults) ==
    CheckLoop(assets, 1, TRUE, s, e, faults)

\* ------------------------------------------------------ the exchange
\* fetch_candles_chunk(end_dt, bar_count): the timestamps a request can
\* return candles for, one per period back from end_dt.
FetchTimes(freq, end_dt, bar_count) ==
    {end_dt - j * Period(freq) : j \in 0..bar_count}

\* The answers the exchange can give for a chunk: per requested asset a
\* set of candle timestamps, the same as before for every timestamp it
\* has already served (its history does not change between requests).
FetchAnswers(freq, assets, end_dt, bar_count) ==
    LET T == FetchTimes(freq, end_dt, bar_count)
    IN  {f \in [Assets -> SUBSET T] :
            \A a \in Assets :
                IF a \in SeqToSet(assets)
                THEN f[a] \cap market[a].seen = market[a].has \cap T
                ELSE f[a] = {}}

\* ------------------------------------------------------ reconciliation
\* The walk without line 282: a fetched candle is not carried forward.
RECURSIVE WalkNoCarry(_, _, _, _, _)
WalkNoCarry(date, chunk_end, asset_candles, previous, rows) ==
    IF date > chunk_end
    THEN [rows |-> rows, previous |-> previous]
    ELSE LET hit == {c \in asset_candles : c.last_traded = date}
             candle == IF hit # {} THEN CHOOSE c \in hit : TRUE
                       ELSE previous
         IN  IF candle # None
             THEN WalkNoCarry(date + 1, chunk_end, asset_candles, previous,
                      Append(rows, [date |-> date, candle |-> candle]))
             ELSE WalkNoCarry(date + 1, chunk_end, asset_candles, previous,
                              rows)

\* lines 269-284: the walk over the minutes of the chunk for one asset.
RECURSIVE Walk(_, _, _, _, _)
Walk(date, chunk_end, asset_candles, previous, rows) ==
    IF date > chunk_end
    THEN [rows |-> rows, previous |-> previous]
    ELSE LET hit == {c \in asset_candles : c.last_traded = date}
             candle == IF hit # {} THEN CHOOSE c \in hit : TRUE
                       ELSE previous
         IN  IF candle # None
             THEN Walk(date + 1, chunk_end, asset_candles, candle,
                       Append(rows, [date |-> date, candle |-> candle]))
             ELSE Walk(date + 1, chunk_end, asset_candles, previous, rows)

\* lines 254-284: one asset of the chunk: its rows and its carried candle.
Reconcile(chunk, asset_candles, previous) ==
    IF asset_candles = {}
    THEN [rows |-> <<>>, previous |-> previous]
    ELSE Walk(ChunkStart(chunk), chunk.end, asset_candles, previous, <<>>)

\* The pairs when previous_candle is one candle for all the assets
\* instead of one per asset.
DataOfSharedCarry(chunk, cs, prev) ==
    LET held == {prev[b] : b \in Assets} \ {None}
        shared == IF held = {} THEN None ELSE CHOOSE c \in held : TRUE
        keep == {a \in DOMAIN cs :
                    Reconcile(chunk, cs[a], shared).rows # <<>>}
    IN  [a \in keep |-> Reconcile(chunk, cs[a], shared).rows]

\* lines 286-293: the (sid, df) pairs: the assets with a non-empty frame.
DataOf(chunk, cs, prev) ==
    LET keep == {a \in DOMAIN cs :
                    Reconcile(chunk, cs[a], prev[a]).rows # <<>>}
    IN  [a \in keep |-> Reconcile(chunk, cs[a], prev[a]).rows]

\* line 282: previous_candle after the chunk.
CarryOf(chunk, cs, prev) ==
    [a \in Assets |->
        IF a \in DOMAIN cs
        THEN Reconcile(chunk, cs[a], prev[a]).previous
        ELSE prev[a]]

RowDates(rows) == {rows[i].date : i \in 1..Len(rows)}

\* --------------------------------------------------------- the writer
\* writer.write(data): a unit overlaps when the store already holds a row
\* of its sid inside the unit's time range.
UnitOverlaps(sid, rows) ==
    \E t \in DOMAIN store[sid] : rows[1].date <= t /\ t <= rows[Len(rows)].date

WriteOverlaps(d) == \E a \in DOMAIN d : UnitOverlaps(a, d[a])

\* writer.write(data): the store with every unit appended.
StoreAppend(d) ==
    [a \in Assets |->
        IF a \in DOMAIN d
        THEN [t \in DOMAIN store[a] \cup RowDates(d[a]) |->
                IF t \in RowDates(d[a])
                THEN d[a][CHOOSE i \in 1..Len(d[a]) :
                                 d[a][i].date = t].candle.close
                ELSE store[a][t]]
        ELSE store[a]]

\* ------------------------------------------------------------- states
NoCall == [assets |-> <<>>, start |-> 0, end |-> 0, has_data |-> FALSE]

\* The locals and counters of a bundle whose ingest() has not been called.
Fresh ==
    /\ request_cpt = 0
    /\ _reader = FALSE
    /\ _writer = FALSE
    /\ market = EmptyMarket
    /\ err = "none"
    /\ chunks = <<>>
    /\ idx = 0
    /\ previous_candle = NoCarry
    /\ candles = EmptyFn
    /\ data = EmptyFn
    /\ run = 0
    /\ log = <<>>
    /\ completed = 0
    /\ snapshot = EmptyStore
    /\ ret = NoCall

\* A new bundle over an empty bundle directory.
Idle ==
    /\ on_disk = FALSE
    /\ store = EmptyStore
    /\ Fresh

\* After construction (lines 29-41): get_adj_dates has succeeded, so the
\* range is valid and starts no earlier than the earliest asset.  Time is
\* counted from the earliest asset's start_date.  A daily bundle covers
\* whole days, in one chunk.
Init ==
    /\ data_frequency \in Frequencies
    /\ num_candles_limit \in 1..MaxLimit
    /\ \E s \in 0..MaxTime, e \in 0..MaxTime :
          /\ s < e
          /\ data_frequency = "daily" => e - s <= num_candles_limit
          /\ start = s * Period(data_frequency)
          /\ end = e * Period(data_frequency)
          /\ \E d \in [Assets -> 0..(MaxTime - 1)] :
                /\ \E a \in Assets : d[a] = 0
                /\ start_date = [a \in Assets |->
                                    d[a] * Period(data_frequency)]
    /\ reqStart = start
    /\ reqEnd = end
    /\ now = MaxTime * Period(data_frequency)
    /\ pc = "ready"
    /\ Idle

\* The loop moves to the next chunk, or ingest() returns.
NextChunk ==
    /\ idx' = idx + 1
    /\ candles' = EmptyFn
    /\ data' = EmptyFn
    /\ IF idx + 1 > Len(chunks)
       THEN /\ pc' = "done"
            /\ completed' = IF completed = 0 THEN run ELSE completed
            /\ snapshot' = IF completed = 0 THEN store' ELSE snapshot
       ELSE /\ pc' = "check"
            /\ UNCHANGED <<completed, snapshot>>

\* lines 252, 291: num_candles, the rows of all the pairs.
RECURSIVE SumLen(_, _)
SumLen(d, S) ==
    IF S = {} THEN 0
    ELSE LET a == CHOOSE x \in S : TRUE
         IN  Len(d[a]) + SumLen(d, S \ {a})

NumCandles(d) == SumLen(d, DOMAIN d)

\* What the run did for a chunk: the operation, the chunk, the number of
\* rows handed to the writer and, for a call that takes the chunk's asset
\* list (the existence check and the fetch), the list passed.
Event(op, chunk, n) ==
    [op |-> op, end |-> chunk.end, bar_count |-> chunk.bar_count, n |-> n,
     assets |-> <<>>]

Request(op, chunk, assets) ==
    [op |-> op, end |-> chunk.end, bar_count |-> chunk.bar_count, n |-> 0,
     assets |-> assets]

\* lines 175-226: ingest() up to the loop: the plan, or the ValueError.
Ingest ==
    /\ pc = "ready"
    /\ run' = run + 1
    /\ IF data_frequency \notin {"minute", "daily"}
       THEN /\ pc' = "failed"
            /\ err' = "frequency"
            /\ UNCHANGED <<chunks, idx, previous_candle>>
       ELSE /\ chunks' = PlanChunks(data_frequency, start, end,
                                    num_candles_limit)
            /\ idx' = 1
            /\ previous_candle' = NoCarry
            /\ pc' = "check"
            /\ err' = "none"
    /\ log' = <<>>
    /\ UNCHANGED <<data_frequency, start_date, num_candles_limit,
                   request_cpt, reqStart, reqEnd, now, ret, start, end, _reader,
                   _writer, on_disk, store, market, candles, data,
                   completed, snapshot>>

\* The head of the loop when a chunk that does not exist yet is waited
\* for instead of fetched: the check is repeated.
CheckWaits ==
    /\ pc = "check"
    /\ UNCHANGED <<data_frequency, start_date, num_candles_limit,
                   request_cpt, reqStart, reqEnd, now, ret, start, end, _writer,
                   on_disk, store, market, err, chunks, previous_candle,
                   run>>
    /\ LET chunk == chunks[idx]
           chunk_assets == ChunkAssets(chunk)
       IN  /\ _reader' = IF chunk_assets # <<>> THEN Reader ELSE _reader
           /\ \E faults \in BOOLEAN :
                 IF CheckDataExists(chunk_assets, ChunkStart(chunk),
                                    chunk.end, faults)
                 THEN /\ log' = log \o <<Request("check", chunk,
                                                 chunk_assets),
                                         Event("skip", chunk, 0)>>
                      /\ NextChunk
                 ELSE UNCHANGED <<log, pc, idx, candles, data, completed,
                                  snapshot>>

\* The head of the loop without lines 236-239: every chunk is fetched.
CheckNeverSkips ==
    /\ pc = "check"
    /\ LET chunk == chunks[idx]
           chunk_assets == ChunkAssets(chunk)
       IN  /\ _reader' = IF chunk_assets # <<>> THEN Reader ELSE _reader
           /\ log' = Append(log, Request("check", chunk, chunk_assets))
    /\ pc' = "fetch"
    /\ UNCHANGED <<data_frequency, start_date, num_candles_limit,
                   request_cpt, reqStart, reqEnd, now, ret, start, end,
                   _writer, on_disk, store, market, err, chunks, idx,
                   previous_candle, candles, data, run, completed,
                   snapshot>>

\* lines 227-239: the head of the loop: the chunk's assets and the
\* existence check; a chunk that exists is skipped.
Check ==
    /\ pc = "check"
    /\ UNCHANGED <<data_frequency, start_date, num_candles_limit,
                   request_cpt, reqStart, reqEnd, now, ret, start, end, _writer,
                   on_disk, store, market, err, chunks, previous_candle,
                   run>>
    /\ LET chunk == chunks[idx]
           chunk_assets == ChunkAssets(chunk)
       IN  /\ _reader' = IF chunk_assets # <<>> THEN Reader ELSE _reader
           /\ \E faults \in BOOLEAN :
                 IF CheckDataExists(chunk_assets, ChunkStart(chunk),
                                    chunk.end, faults)
                 THEN /\ log' = log \o <<Request("check", chunk,
                                                 chunk_assets),
                                         Event("skip", chunk, 0)>>
                      /\ NextChunk
                 ELSE /\ log' = Append(log, Request("check", chunk,
                                                     chunk_assets))
                      /\ pc' = "fetch"
                      /\ UNCHANGED <<idx, candles, data, completed,
                                     snapshot>>
\* The fetch without lines 295-314: the loop goes on to the next chunk
\* with the chunk's pairs unwritten.
FetchWithoutWrite ==
    /\ pc = "fetch"
    /\ UNCHANGED <<data_frequency, start_date, num_candles_limit, reqStart,
                   reqEnd, now, ret, start, end, _reader, _writer, on_disk,
                   store, err, chunks, run>>
    /\ LET chunk == chunks[idx]
           chunk_assets == ChunkAssets(chunk)
           T == FetchTimes(data_frequency, chunk.end, chunk.bar_count)
       IN  \E f \in FetchAnswers(data_frequency, chunk_assets, chunk.end,
                                 chunk.bar_count) :
             LET cs == [a \in SeqToSet(chunk_assets) |->
                           {Candle(a, t) : t \in f[a]}]
             IN  /\ market' = [a \in Assets |->
                       IF a \in SeqToSet(chunk_assets)
                       THEN [seen |-> market[a].seen \cup T,
                             has |-> market[a].has \cup f[a]]
                       ELSE market[a]]
                 /\ previous_candle' = CarryOf(chunk, cs, previous_candle)
                 /\ log' = Append(log, Request("fetch", chunk,
                                               chunk_assets))
    /\ request_cpt' = request_cpt + 1
    /\ NextChunk

\* lines 242-293: the fetch of the chunk's candles and their
\* reconciliation into the (sid, df) pairs.
Fetch ==
    /\ pc = "fetch"
    /\ LET chunk == chunks[idx]
           chunk_assets == ChunkAssets(chunk)
           T == FetchTimes(data_frequency, chunk.end, chunk.bar_count)
       IN  \E f \in FetchAnswers(data_frequency, chunk_assets, chunk.end,
                                 chunk.bar_count) :
             LET cs == [a \in SeqToSet(chunk_assets) |->
                           {Candle(a, t) : t \in f[a]}]
             IN  /\ candles' = cs
                 /\ market' = [a \in Assets |->
                       IF a \in SeqToSet(chunk_assets)
                       THEN [seen |-> market[a].seen \cup T,
                             has |-> market[a].has \cup f[a]]
                       ELSE market[a]]
                 /\ data' = DataOf(chunk, cs, previous_candle)
                 /\ previous_candle' = CarryOf(chunk, cs, previous_candle)
                 /\ log' = Append(log, Request("fetch", chunk,
                                               chunk_assets))
    /\ request_cpt' = request_cpt + 1
    /\ pc' = "write"
    /\ UNCHANGED <<data_frequency, start_date, num_candles_limit, reqStart,
                   reqEnd, now, ret, start, end, _reader, _writer, on_disk,
                   store, err, chunks, idx, run, completed, snapshot>>

\* The fetch in a try block that logs the failure and goes on with the
\* next chunk.
FetchRaisesCaught ==
    /\ pc = "fetch"
    /\ err' = "none"
    /\ log' = Append(log, Event("fetch_error", chunks[idx], 0))
    /\ UNCHANGED <<data_frequency, start_date, num_candles_limit,
                   request_cpt, reqStart, reqEnd, now, ret, start, end, _reader,
                   _writer, on_disk, store, market, chunks,
                   previous_candle, run>>
    /\ NextChunk

\* lines 242-248: the fetch raises; nothing in ingest() catches it.
FetchRaises ==
    /\ pc = "fetch"
    /\ pc' = "failed"
    /\ err' = "fetch"
    /\ log' = Append(log, Event("fetch_error", chunks[idx], 0))
    /\ UNCHANGED <<data_frequency, start_date, num_candles_limit,
                   request_cpt, reqStart, reqEnd, now, ret, start, end, _reader,
                   _writer, on_disk, store, market, chunks, idx,
                   previous_candle, candles, data, run, completed,
                   snapshot>>

\* The write without the except clause of line 313: the overlap leaves
\* ingest() like any other exception.
WriteNoCatch ==
    /\ pc = "write"
    /\ _writer' = TRUE
    /\ on_disk' = TRUE
    /\ UNCHANGED <<data_frequency, start_date, num_candles_limit,
                   request_cpt, reqStart, reqEnd, now, ret, start, end,
                   _reader, market, chunks, previous_candle, run>>
    /\ IF WriteOverlaps(data)
       THEN /\ store' = store
            /\ log' = Append(log, Event("overlap", chunks[idx],
                                        NumCandles(data)))
            /\ pc' = "failed"
            /\ err' = "overlap"
            /\ UNCHANGED <<idx, candles, data, completed, snapshot>>
       ELSE /\ store' = StoreAppend(data)
            /\ log' = Append(log, Event("write", chunks[idx],
                                        NumCandles(data)))
            /\ err' = err
            /\ NextChunk

\* The write whose except clause leaves the loop: ingest() returns at
\* the first overlap.
WriteBreakOnOverlap ==
    /\ pc = "write"
    /\ _writer' = TRUE
    /\ on_disk' = TRUE
    /\ UNCHANGED <<data_frequency, start_date, num_candles_limit,
                   request_cpt, reqStart, reqEnd, now, ret, start, end, _reader,
                   market, err, chunks, previous_candle, run>>
    /\ IF WriteOverlaps(data)
       THEN /\ store' = store
            /\ log' = Append(log, Event("overlap", chunks[idx],
                                        NumCandles(data)))
            /\ pc' = "done"
            /\ completed' = IF completed = 0 THEN run ELSE completed
            /\ snapshot' = IF completed = 0 THEN store ELSE snapshot
            /\ UNCHANGED <<idx, candles, data>>
       ELSE /\ store' = StoreAppend(data)
            /\ log' = Append(log, Event("write", chunks[idx],
                                        NumCandles(data)))
            /\ NextChunk

\* lines 295-314: the write of the chunk; an overlap is logged and the
\* loop goes on.
Write ==
    /\ pc = "write"
    /\ _writer' = TRUE
    /\ on_disk' = TRUE
    /\ IF WriteOverlaps(data)
       THEN /\ store' = store
            /\ log' = Append(log, Event("overlap", chunks[idx], NumCandles(data)))
       ELSE /\ store' = StoreAppend(data)
            /\ log' = Append(log, Event("write", chunks[idx], NumCandles(data)))
    /\ NextChunk
    /\ UNCHANGED <<data_frequency, start_date, num_candles_limit,
                   request_cpt, reqStart, reqEnd, now, ret, start, end, _reader,
                   market, err, chunks, previous_candle, run>>

\* lines 308-313: the write raises something other than the overlap;
\* the except clause does not match and the exception leaves ingest().
WriteRaises ==
    /\ pc = "write"
    /\ _writer' = TRUE
    /\ on_disk' = TRUE
    /\ pc' = "failed"
    /\ err' = "write"
    /\ log' = Append(log, Event("write_error", chunks[idx], NumCandles(data)))
    /\ UNCHANGED <<data_frequency, start_date, num_candles_limit,
                   request_cpt, reqStart, reqEnd, now, ret, start, end, _reader,
                   store, market, chunks, idx, previous_candle, candles,
                   data, run, completed, snapshot>>

\* The caller invokes ingest() again on the same bundle, after a run
\* that returned or failed.
Reingest ==
    /\ pc \in {"done", "failed"}
    /\ run < MaxRuns
    /\ pc' = "ready"
    /\ err' = "none"
    /\ chunks' = <<>>
    /\ idx' = 0
    /\ previous_candle' = NoCarry
    /\ candles' = EmptyFn
    /\ data' = EmptyFn
    /\ UNCHANGED <<data_frequency, start_date, num_candles_limit,
                   request_cpt, reqStart, reqEnd, now, ret, start, end, _reader,
                   _writer, on_disk, store, market, run, log, completed,
                   snapshot>>

Next ==
    \/ Ingest
    \/ Check
    \/ Fetch
    \/ FetchRaises
    \/ Write
    \/ WriteRaises
    \/ Reingest

Spec == Init /\ [][Next]_vars

\* ------------------------------------------- runs without a failure
\* The runs in which neither the exchange nor the store fails.
NextRun ==
    \/ Ingest
    \/ Check
    \/ Fetch
    \/ Write
    \/ Reingest

SpecRun == Init /\ [][NextRun]_vars

\* After construction, for a range that starts at the start_date of the
\* earliest asset, which is the first one.
InitLive ==
    /\ data_frequency \in Frequencies
    /\ num_candles_limit \in 1..MaxLimit
    /\ \E e \in 1..MaxTime :
          /\ data_frequency = "daily" => e <= num_candles_limit
          /\ start = 0
          /\ end = e * Period(data_frequency)
          /\ \E d \in [Assets -> 0..(MaxTime - 1)] :
                /\ d[1] = 0
                /\ start_date = [a \in Assets |->
                                    d[a] * Period(data_frequency)]
    /\ reqStart = start
    /\ reqEnd = end
    /\ now = MaxTime * Period(data_frequency)
    /\ pc = "ready"
    /\ Idle

\* ingest() is sequential code that blocks on nothing but the calls it
\* makes, so once called it keeps taking its next step; whether the
\* caller calls it again is up to the caller.
SpecLive ==
    /\ InitLive
    /\ [][NextRun]_vars
    /\ WF_vars(Ingest \/ Check \/ Fetch \/ Write)

\* ------------------------------------------------------- construction
\* Before construction: the caller's (start, end), the clock and the
\* exchange's assets.
InitAdj ==
    /\ data_frequency = "minute"
    /\ num_candles_limit \in 1..MaxLimit
    /\ reqStart \in 0..MaxTime
    /\ reqEnd \in 0..(MaxTime + 1)
    /\ now \in 0..MaxTime
    /\ start_date \in [Assets -> 0..MaxTime]
    /\ start = reqStart
    /\ end = reqEnd
    /\ pc = "new"
    /\ Idle

\* lines 29-41: __init__: the adjusted range, or the ValueError of
\* get_adj_dates, which leaves no bundle.
NewBundle ==
    /\ pc = "new"
    /\ LET adj == AdjDates(reqStart, reqEnd, now, start_date)
       IN  IF adj.ok
           THEN /\ start' = adj.start
                /\ end' = adj.end
                /\ pc' = "ready"
                /\ err' = "none"
           ELSE /\ pc' = "failed"
                /\ err' = "range"
                /\ UNCHANGED <<start, end>>
    /\ UNCHANGED <<data_frequency, start_date, num_candles_limit,
                   request_cpt, reqStart, reqEnd, now, ret, _reader, _writer,
                   on_disk, store, market, chunks, idx, previous_candle,
                   candles, data, run, log, completed, snapshot>>

NextAdj == NewBundle

SpecAdj == InitAdj /\ [][NextAdj]_vars

\* ------------------------------------------------- resumed ingestion
\* A minute bundle over one period, on an empty bundle directory; the
\* first asset is the earliest one.
InitResume ==
    /\ data_frequency = "minute"
    /\ num_candles_limit \in 1..MaxLimit
    /\ \E s \in 0..(MaxTime - 1) :
          /\ start = s
          /\ end = s + 1
          /\ \E d \in [Assets -> 0..(MaxTime - 1)] :
                /\ d[1] = 0
                /\ start_date = d
    /\ reqStart = start
    /\ reqEnd = end
    /\ now = MaxTime
    /\ pc = "ready"
    /\ Idle

\* lines 29-41: after the one-period bundle has ingested, a new bundle of
\* the same exchange and frequency is constructed with a wider range,
\* requested from the earliest asset on; it finds the bundle directory as
\* the first one left it.
Rebundle ==
    /\ pc = "done"
    /\ end - start = 1
    /\ \E s \in {0}, e \in end..MaxTime :
          LET adj == AdjDates(s, e, now, start_date)
          IN  /\ adj.ok
              /\ adj.end - adj.start > 1
              /\ reqStart' = s
              /\ reqEnd' = e
              /\ start' = adj.start
              /\ end' = adj.end
    /\ _reader' = FALSE
    /\ _writer' = FALSE
    /\ pc' = "ready"
    /\ err' = "none"
    /\ chunks' = <<>>
    /\ idx' = 0
    /\ previous_candle' = NoCarry
    /\ candles' = EmptyFn
    /\ data' = EmptyFn
    /\ run' = 0
    /\ log' = <<>>
    /\ completed' = 0
    /\ snapshot' = EmptyStore
    /\ UNCHANGED <<data_frequency, start_date, num_candles_limit,
                   request_cpt, now, ret, on_disk, store, market>>

\* The runs in which neither the exchange nor the writer fails.
NextResume ==
    \/ Ingest
    \/ Check
    \/ Fetch
    \/ Write
    \/ Reingest
    \/ Rebundle

SpecResume == InitResume /\ [][NextResume]_vars

\* ------------------------------------------------- the entry points
\* An entry point that raised: which one, for the caller's traceback.
Entry(op) == [op |-> op, end |-> 0, bar_count |-> 0, n |-> 0, assets |-> <<>>]

\* lines 76-103: the caller reads the reader property.  The cached handle
\* is returned; otherwise a minute or daily reader is opened, which
\* succeeds only over an initialised store, and any other frequency
\* raises ValueError.
ReaderProp ==
    /\ pc = "ready"
    /\ IF _reader
       THEN UNCHANGED <<_reader, pc, err, log>>
       ELSE IF data_frequency \in {"minute", "daily"}
            THEN /\ _reader' = on_disk
                 /\ UNCHANGED <<pc, err, log>>
            ELSE /\ pc' = "failed"
                 /\ err' = "frequency"
                 /\ log' = Append(log, Entry("reader"))
                 /\ UNCHANGED _reader
    /\ UNCHANGED <<data_frequency, start_date, num_candles_limit,
                   request_cpt, reqStart, reqEnd, now, ret, start, end,
                   _writer, on_disk, store, market, chunks, idx,
                   previous_candle, candles, data, run, completed,
                   snapshot>>

\* The writer property with every other frequency handled as minute.
WriterPropAnyFrequency ==
    /\ pc = "ready"
    /\ _writer' = TRUE
    /\ on_disk' = TRUE
    /\ UNCHANGED <<data_frequency, start_date, num_candles_limit,
                   request_cpt, reqStart, reqEnd, now, ret, start, end,
                   _reader, store, market, pc, err, chunks, idx,
                   previous_candle, candles, data, run, log, completed,
                   snapshot>>

\* lines 105-147: the caller reads the writer property.  The cached
\* handle is returned; otherwise the bundle folder is made sure of (line
\* 117, an empty folder holds no store) and a minute or daily writer is
\* opened over the store there or creates it; any other frequency raises
\* ValueError.
WriterProp ==
    /\ pc = "ready"
    /\ IF _writer
       THEN UNCHANGED <<_writer, on_disk, pc, err, log>>
       ELSE IF data_frequency \in {"minute", "daily"}
            THEN /\ _writer' = TRUE
                 /\ on_disk' = TRUE
                 /\ UNCHANGED <<pc, err, log>>
            ELSE /\ pc' = "failed"
                 /\ err' = "frequency"
                 /\ log' = Append(log, Entry("writer"))
                 /\ UNCHANGED <<_writer, on_disk>>
    /\ UNCHANGED <<data_frequency, start_date, num_candles_limit,
                   request_cpt, reqStart, reqEnd, now, ret, start, end,
                   _reader, store, market, chunks, idx, previous_candle,
                   candles, data, run, completed, snapshot>>

\* A bundle whose reader, writer or ingest() is used, in any order, and
\* whose run meets no failure of the exchange or of the store.
NextEntry ==
    \/ ReaderProp
    \/ WriterProp
    \/ Ingest
    \/ Check
    \/ Fetch
    \/ Write

SpecEntry == Init /\ [][NextEntry]_vars

\* ---------------------------------------- check_data_exists, directly
AssetLists == {<<>>, <<1>>, <<2>>, <<1, 2>>, <<2, 1>>}

\* A bundle over a directory that is empty, or holds the rows some
\* earlier ingestions left: any rows of any asset.
InitCheck ==
    /\ data_frequency = "minute"
    /\ num_candles_limit = 1
    /\ start_date = [a \in Assets |-> 0]
    /\ reqStart = 0
    /\ reqEnd = MaxProbe
    /\ now = MaxProbe
    /\ start = 0
    /\ end = MaxProbe
    /\ pc = "call"
    /\ on_disk \in BOOLEAN
    /\ \E rows \in [Assets -> SUBSET (0..MaxProbe)] :
          /\ ~on_disk => \A a \in Assets : rows[a] = {}
          /\ store = [a \in Assets |->
                         [t \in rows[a] |-> ClosePrice(a, t)]]
    /\ Fresh

\* lines 149-173: a call of check_data_exists(assets, start, end).
CallCheckDataExists ==
    /\ pc = "call"
    /\ \E assets \in AssetLists, s \in 0..MaxProbe, e \in 0..MaxProbe,
          faults \in BOOLEAN :
          /\ ret' = [assets |-> assets, start |-> s, end |-> e,
                     has_data |-> CheckDataExists(assets, s, e, faults)]
          /\ _reader' = IF assets # <<>> THEN Reader ELSE _reader
    /\ pc' = "returned"
    /\ UNCHANGED <<data_frequency, start_date, num_candles_limit,
                   request_cpt, reqStart, reqEnd, now, start, end, _writer,
                   on_disk, store, market, err, chunks, idx,
                   previous_candle, candles, data, run, log, completed,
                   snapshot>>

NextCheck == CallCheckDataExists

SpecCheck == InitCheck /\ [][NextCheck]_vars

\* ------------------------------------------------------------- claims

\* The chunks of the plan whose window holds minute t.
ChunksHolding(t) == {i \in 1..Len(chunks) : t \in Window(chunks[i])}

\* C1: the plan of a minute bundle covers the effective range exactly:
\* every minute of [start, end] lies in the window of exactly one planned
\* chunk, the oldest remainder shorter than the limit included.
C1_ChunkCoverage ==
    (data_frequency = "minute" /\ chunks # <<>>) =>
        \A t \in start..end : Cardinality(ChunksHolding(t)) = 1

\* The candles of sid a fetched so far in this run: what the exchange
\* holds at the timestamps of the requests this run has made for a.
FetchedThisRun(a) ==
    {t \in market[a].has :
        \E k \in 1..Len(log), i \in 1..Len(chunks) :
            /\ log[k].op = "fetch"
            /\ chunks[i].end = log[k].end
            /\ start_date[a] <= chunks[i].end
            /\ t \in FetchTimes(data_frequency, chunks[i].end,
                                chunks[i].bar_count)}

Latest(S) == CHOOSE m \in S : \A x \in S : x <= m

RowAt(rows, t) == rows[CHOOSE i \in 1..Len(rows) : rows[i].date = t]

\* C3: in the reconciled series of an asset for a chunk of a minute
\* bundle, every minute t of the window at or after the asset's first
\* available candle has a row, that row is the most recent fetched candle
\* with last_traded <= t, and no minute before it has a row.
C3_ForwardFill ==
    (data_frequency = "minute" /\ pc = "write") =>
        \A a \in DOMAIN data :
            \A t \in Window(chunks[idx]) :
                LET known == {c \in FetchedThisRun(a) : c <= t}
                IN  IF known = {}
                    THEN t \notin RowDates(data[a])
                    ELSE /\ t \in RowDates(data[a])
                         /\ RowAt(data[a], t).candle
                                = Candle(a, Latest(known))

\* C3 witness: a candle at the first minute of a window and none at the
\* second, which is filled by repeating the first; a later candle follows.
C3_Witness ==
    /\ data_frequency = "minute"
    /\ pc = "write"
    /\ \E a \in DOMAIN data :
          LET t0 == ChunkStart(chunks[idx])
          IN  /\ Len(data[a]) = 3
              /\ data[a][1] = [date |-> t0, candle |-> Candle(a, t0)]
              /\ data[a][2] = [date |-> t0 + 1, candle |-> Candle(a, t0)]
              /\ data[a][3] = [date |-> t0 + 2,
                               candle |-> Candle(a, t0 + 2)]

\* C4: when a chunk is reconciled, every asset of the chunk that holds a
\* carried candle gets a row at every minute of the window, also when the
\* fetch returned no candle for it.
C4_CarryAlwaysEmitted ==
    [][(pc = "fetch" /\ pc' = "write") =>
          \A a \in SeqToSet(ChunkAssets(chunks[idx])) :
              previous_candle[a] # None =>
                  /\ a \in DOMAIN data'
                  /\ Window(chunks[idx]) \subseteq RowDates(data'[a])]_vars

\* C5: an asset with no carried candle whose first fetched candle of the
\* chunk is at minute t5 gets no row before t5, whatever the other assets
\* and the earlier chunks left in the carry map.
C5_NoFabrication ==
    [][(pc = "fetch" /\ pc' = "write") =>
          \A a \in DOMAIN candles' :
              (previous_candle[a] = None /\ candles'[a] # {}) =>
                  \A t \in Window(chunks[idx]) :
                      (\A c \in candles'[a] : t < c.last_traded) =>
                          (a \notin DOMAIN data'
                             \/ t \notin RowDates(data'[a]))]_vars

\* C5 witness: in the second chunk one asset is filled from the first
\* minute by its carried candle while the other, seen for the first time
\* at a later minute, has no earlier row.
C5_Witness ==
    /\ pc = "write"
    /\ idx = 2
    /\ \E a, b \in DOMAIN data :
          /\ data[b][1].date = ChunkStart(chunks[idx])
          /\ data[b][1].candle.last_traded < ChunkStart(chunks[idx])
          /\ data[a][1].date > ChunkStart(chunks[idx])
          /\ data[a][1].candle = Candle(a, data[a][1].date)

\* C6: the planned chunks are strictly increasing in their end, and the
\* run works through them in that order: when the store receives the
\* write of a chunk, every chunk with an earlier end has already been
\* attempted (skipped, written or rejected) in this run.
C6_ChunkOrder ==
    /\ \A i \in 1..(Len(chunks) - 1) : chunks[i].end < chunks[i + 1].end
    /\ \A k \in 1..Len(log) :
          log[k].op \in {"write", "overlap", "write_error"} =>
              \A i \in 1..Len(chunks) :
                  chunks[i].end < log[k].end =>
                      \E j \in 1..(k - 1) :
                          /\ log[j].end = chunks[i].end
                          /\ log[j].op \in {"skip", "write", "overlap"}

\* C6 witness: the second chunk of a plan has been written.
C6_Witness ==
    /\ Len(chunks) >= 2
    /\ \E k \in 1..Len(log) :
          log[k].op = "write" /\ log[k].end = chunks[2].end

\* C2 (as claimed): once ingest() has returned, a further run over the
\* same range leaves the store as that run left it, and each of its
\* chunks is skipped by the existence check or has its write rejected as
\* overlapping and ignored: no write of the further run goes through.
C2_SecondRunSkipsOrOverlaps ==
    (completed # 0 /\ run > completed) =>
        /\ store = snapshot
        /\ err # "overlap"
        /\ \A k \in 1..Len(log) : log[k].op # "write"

\* C2 (amended): once ingest() has returned, a further run over the same
\* range leaves the store as that run left it; each of its chunks is
\* skipped by the existence check, or has its write rejected as
\* overlapping and ignored, or - when the fetch returned no candle for
\* any asset - is written with no rows at all.
C2_Idempotent ==
    (completed # 0 /\ run > completed) =>
        /\ store = snapshot
        /\ err # "overlap"
        /\ \A k \in 1..Len(log) : log[k].op = "write" => log[k].n = 0

\* C2 witness: a second run of a bundle, over a directory an earlier
\* bundle had already written to, has returned after skipping one chunk
\* and having the write of another rejected.
C2_Witness ==
    /\ completed # 0
    /\ run > completed
    /\ pc = "done"
    /\ reqEnd - reqStart > 1
    /\ store # EmptyStore
    /\ \E k \in 1..Len(log) : log[k].op = "skip"
    /\ \E k \in 1..Len(log) : log[k].op = "overlap"

\* A row of sid a at minute t is recorded and is not NaN.
Present(a, t) == t \in DOMAIN store[a] /\ store[a][t] # NaN

EndpointsPresent(assets, s, e) ==
    \A i \in 1..Len(assets) : Present(assets[i], s) /\ Present(assets[i], e)

\* C7 (as claimed): check_data_exists is true only if both endpoint
\* closes of every asset are present and not NaN, and it is false
\* whenever the reader is absent or an endpoint of an asset is missing,
\* for every asset list.
C7_ExistsConservativeAnyList ==
    pc = "returned" =>
        /\ ret.has_data => EndpointsPresent(ret.assets, ret.start, ret.end)
        /\ (~on_disk \/ ~EndpointsPresent(ret.assets, ret.start, ret.end))
               => ~ret.has_data

\* C7 (amended): check_data_exists is true only if both endpoint closes
\* of every asset are present and not NaN; for a non-empty asset list it
\* is false whenever the reader is absent or an endpoint of an asset is
\* missing (for the empty list it is true, reader or not).
C7_ExistsConservative ==
    pc = "returned" =>
        /\ ret.has_data => EndpointsPresent(ret.assets, ret.start, ret.end)
        /\ (ret.assets # <<>>
              /\ (~on_disk
                    \/ ~EndpointsPresent(ret.assets, ret.start, ret.end)))
               => ~ret.has_data
        /\ ret.assets = <<>> => ret.has_data

\* C7 witness: the check answered true for both assets over a window
\* that has a missing minute inside it, and the reader is cached.
C7_Witness ==
    /\ pc = "returned"
    /\ ret.has_data
    /\ Len(ret.assets) = 2
    /\ ret.start + 2 = ret.end
    /\ ~Present(1, ret.start + 1)
    /\ _reader

\* C8: when the store rejects the write of a chunk as overlapping, the
\* run is not ended: nothing is stored, the loop moves to the next chunk
\* in order, and after the last chunk ingest() returns normally.
C8_OverlapContinues ==
    [][(pc = "write" /\ Len(log') > Len(log)
           /\ log'[Len(log')].op = "overlap") =>
          /\ store' = store
          /\ err' = "none"
          /\ idx' = idx + 1
          /\ pc' = IF idx < Len(chunks) THEN "check" ELSE "done"]_vars

\* C8 witness: a run returned normally although the write of its first
\* chunk was rejected as overlapping and a later chunk followed it.
C8_Witness ==
    /\ pc = "done"
    /\ Len(chunks) >= 2
    /\ \E k \in 1..Len(log) :
          log[k].op = "overlap" /\ log[k].end = chunks[1].end

\* C9: a fetch failure and a write failure other than the overlap end
\* the run: the step that fails changes neither the store nor the loop
\* position, and a failed run does nothing more (no check, fetch or
\* write) - the store keeps the chunks written before the failure.
C9_FailureEndsRun ==
    [][/\ (Len(log') > Len(log)
             /\ log'[Len(log')].op \in {"fetch_error", "write_error"}) =>
            (pc' = "failed" /\ store' = store /\ idx' = idx)
       /\ pc = "failed" =>
            /\ store' = store
            /\ request_cpt' = request_cpt
            /\ log' = log
            /\ pc' \in {"failed", "ready"}]_vars

\* C9 witness: a run that failed on its second chunk, with the rows of
\* its first chunk in the store.
C9_Witness ==
    /\ pc = "failed"
    /\ err \in {"fetch", "write"}
    /\ idx = 2
    /\ \E k \in 1..Len(log) : log[k].op = "write" /\ log[k].n > 0
    /\ store # EmptyStore

\* C10: whenever range resolution succeeds, the resolved range starts no
\* earlier than the earliest asset start_date, ends no later than now and
\* has start < end; the start is the requested start unless every asset
\* starts later (then it is the earliest start_date), and the end is the
\* requested end unless that lies in the future (then it is now).
C10_ResolvedRange ==
    pc = "ready" =>
        /\ \E a \in Assets : start_date[a] <= start
        /\ end <= now
        /\ start < end
        /\ IF \A a \in Assets : start_date[a] > reqStart
           THEN /\ \A a \in Assets : start <= start_date[a]
                /\ \E a \in Assets : start = start_date[a]
           ELSE start = reqStart
        /\ IF reqEnd > now THEN end = now ELSE end = reqEnd

\* C10 witness: a resolution that moved both ends.
C10_Witness ==
    /\ pc = "ready"
    /\ start # reqStart
    /\ end # reqEnd

\* The range the caller's (start, end) stands for: the end no later than
\* now, the start no earlier than the earliest asset.
EffectiveEnd == IF reqEnd > now THEN now ELSE reqEnd

EffectiveStart ==
    IF \A a \in Assets : start_date[a] > reqStart
    THEN CHOOSE m \in {start_date[a] : a \in Assets} :
             \A a \in Assets : m <= start_date[a]
    ELSE reqStart

\* C11: construction fails with the invalid-range error exactly when the
\* effective start is at or after the effective end, and when it fails
\* nothing has been fetched, read from the store or written to it.
C11_InvalidRange ==
    pc # "new" =>
        /\ (EffectiveStart >= EffectiveEnd) <=> (pc = "failed" /\ err = "range")
        /\ pc = "failed" =>
              /\ request_cpt = 0
              /\ market = EmptyMarket
              /\ store = EmptyStore
              /\ ~on_disk
              /\ ~_reader
              /\ ~_writer
              /\ log = <<>>

\* C11 witness: a request with start < end, all of it in the past, that
\* fails because no asset is listed before its end: the raised start
\* meets the end.
C11_Witness ==
    /\ pc = "failed"
    /\ err = "range"
    /\ reqStart < reqEnd
    /\ reqEnd <= now
    /\ EffectiveStart = EffectiveEnd

\* The assets listed by the end of a chunk.
Eligible(chunk_end) == {a \in Assets : start_date[a] <= chunk_end}

\* C12 (as claimed): in every chunk the assets existence-checked, the
\* assets fetched and the assets written are each exactly the assets with
\* start_date <= chunk.end.
C12_ChunkAssetsAllWritten ==
    /\ \A k \in 1..Len(log) :
          log[k].op \in {"check", "fetch"} =>
              SeqToSet(log[k].assets) = Eligible(log[k].end)
    /\ pc = "write" =>
          /\ DOMAIN candles = Eligible(chunks[idx].end)
          /\ DOMAIN data = Eligible(chunks[idx].end)

\* C12 (amended): in every chunk the assets existence-checked and the
\* assets fetched are exactly the assets with start_date <= chunk.end, and
\* the assets written are those of them that were fetched at least one
\* candle and have a known candle by the end of the window; an asset not
\* yet listed at chunk.end is not checked, fetched or written.
C12_ChunkAssets ==
    /\ \A k \in 1..Len(log) :
          log[k].op \in {"check", "fetch"} =>
              SeqToSet(log[k].assets) = Eligible(log[k].end)
    /\ pc = "write" =>
          /\ DOMAIN candles = Eligible(chunks[idx].end)
          /\ DOMAIN data =
                {a \in Eligible(chunks[idx].end) :
                    candles[a] # {} /\ previous_candle[a] # None}

\* C12 witness: an earlier chunk was fetched for one asset only, the
\* other not being listed yet, and the current chunk holds rows of both.
C12_Witness ==
    /\ pc = "write"
    /\ DOMAIN data = Assets
    /\ \E k \in 1..Len(log) :
          /\ log[k].op = "fetch"
          /\ Len(log[k].assets) = 1
          /\ log[k].end < chunks[idx].end

\* C13: a chunk {end, bar_count} stands for the bar_count periods of the
\* bundle's frequency that end at end: in a daily bundle the window of a
\* chunk starts bar_count days before its end.
C13_WindowInPeriods ==
    (data_frequency = "daily" /\ chunks # <<>>) =>
        \A i \in 1..Len(chunks) :
            ChunkStart(chunks[i])
                = chunks[i].end - chunks[i].bar_count * MinutesPerDay

C15_SkipNoEffect ==
    [][pc = "check" =>
          LET chunk == chunks[idx]
              present == /\ Reader
                         /\ EndpointsPresent(ChunkAssets(chunk),
                                             ChunkStart(chunk), chunk.end)
              skipped == /\ Len(log') = Len(log) + 2
                         /\ log'[Len(log')].op = "skip"
                         /\ log'[Len(log')].end = chunk.end
          IN  /\ present <=> skipped
              /\ skipped =>
                    /\ log'[Len(log) + 1].op = "check"
                    /\ request_cpt' = request_cpt
                    /\ market' = market
                    /\ store' = store
                    /\ _writer' = _writer
                    /\ previous_candle' = previous_candle
                    /\ idx' = idx + 1
                    /\ pc' = IF idx < Len(chunks) THEN "check" ELSE "done"
              /\ ~skipped => (pc' = "fetch" /\ idx' = idx)]_vars

\* C15 witness: a run skipped a chunk whose rows an earlier run had
\* stored and went on to check the next chunk, which it then fetched.
C15_Witness ==
    \E k \in 1..(Len(log) - 2) :
        /\ log[k].op = "skip"
        /\ log[k + 1].op = "check"
        /\ log[k + 1].end > log[k].end
        /\ log[k + 2].op = "fetch"

\* What the run has logged for the chunk that ends at e, in order.
RECURSIVE OpsFrom(_, _)
OpsFrom(k, e) ==
    IF k > Len(log) THEN <<>>
    ELSE IF log[k].end = e THEN <<log[k].op>> \o OpsFrom(k + 1, e)
    ELSE OpsFrom(k + 1, e)

OpsOf(e) == OpsFrom(1, e)

\* C16: a run of ingest() handles its chunks one after the other: a chunk already
\* left was skipped, or fetched exactly once and then handed to the writer
\* exactly once (written or rejected as overlapping); the chunk at hand is
\* at the step its position says; no later chunk has been touched, and
\* the events of different chunks are not interleaved.  A fetch carries
\* the bar_count and the asset list of its chunk, the bar_count is within
\* the limit, and the candles it returns lie in the chunk's periods.
C16_OneFetchOneWrite ==
    pc # "ready" =>
        /\ \A k \in 1..(Len(log) - 1) : log[k].end <= log[k + 1].end
        /\ \A i \in 1..Len(chunks) :
              LET ops == OpsOf(chunks[i].end)
              IN  IF i < idx
                  THEN ops \in {<<"check", "skip">>,
                                <<"check", "fetch", "write">>,
                                <<"check", "fetch", "overlap">>}
                  ELSE IF i > idx THEN ops = <<>>
                  ELSE CASE pc = "check" -> ops = <<>>
                         [] pc = "fetch" -> ops = <<"check">>
                         [] pc = "write" -> ops = <<"check", "fetch">>
                         [] pc = "failed" ->
                                ops \in {<<"check", "fetch_error">>,
                                         <<"check", "fetch", "write_error">>}
                         [] OTHER -> FALSE
        /\ \A k \in 1..Len(log) :
              log[k].op = "fetch" =>
                  \E i \in 1..Len(chunks) :
                      /\ chunks[i].end = log[k].end
                      /\ log[k].bar_count = chunks[i].bar_count
                      /\ log[k].bar_count <= num_candles_limit
                      /\ log[k].assets = ChunkAssets(chunks[i])
        /\ pc = "write" =>
              \A a \in DOMAIN candles :
                  \A c \in candles[a] :
                      /\ c.last_traded <= chunks[idx].end
                      /\ c.last_traded >= chunks[idx].end
                            - chunks[idx].bar_count * Period(data_frequency)

\* C16 witness: a run returned after fetching and writing two chunks,
\* one after the other.
C16_Witness ==
    /\ pc = "done"
    /\ Len(chunks) = 2
    /\ OpsOf(chunks[1].end) = <<"check", "fetch", "write">>
    /\ OpsOf(chunks[2].end) = <<"check", "fetch", "write">>
    /\ store # EmptyStore

\* The number of periods of the bundle's frequency in [start, end].
TotalPeriods == (end - start) \div Period(data_frequency)

\* C17: no chunk of a plan asks for more than num_candles_limit bars: a
\* range of no more periods than the limit is planned as the one chunk
\* {end, total periods}, and in the plan of a longer range every chunk has
\* a bar_count equal to the limit.
C17_BarCountBounded ==
    chunks # <<>> =>
        /\ \A i \in 1..Len(chunks) :
              chunks[i].bar_count <= num_candles_limit
        /\ TotalPeriods <= num_candles_limit =>
              chunks = <<[end |-> end, bar_count |-> TotalPeriods]>>
        /\ TotalPeriods > num_candles_limit =>
              \A i \in 1..Len(chunks) :
                  chunks[i].bar_count = num_candles_limit

\* C17 witness: a range longer than the limit, at a limit of more than
\* one bar, planned in chunks of the limit.
C17_Witness ==
    /\ TotalPeriods > num_candles_limit
    /\ num_candles_limit > 1
    /\ Len(chunks) >= 1
    /\ \A i \in 1..Len(chunks) : chunks[i].bar_count = num_candles_limit

\* C18: throughout a run the last known candle of an asset only moves
\* forward in time.  The walk of a chunk sets it to the candle of each row
\* it emits, in turn: those candles are in non-decreasing last_traded
\* order starting no earlier than the candle held before the chunk, and
\* the map ends up holding the last of them; an asset with no row keeps its
\* entry; no other step of the run changes the map.  No entry is dated
\* after the end of the chunk at hand, and no row carries a candle dated
\* after the row.
C18_CarryMonotonic ==
    [][/\ pc \in {"check", "fetch", "write"} =>
             \A a \in Assets :
                 previous_candle'[a].last_traded
                     >= previous_candle[a].last_traded
       /\ pc \in {"check", "write"} => previous_candle' = previous_candle
       /\ (pc = "fetch" /\ pc' = "write") =>
             \A a \in Assets :
                 IF a \in DOMAIN data'
                 THEN LET r == data'[a]
                      IN  /\ r[1].candle.last_traded
                                >= previous_candle[a].last_traded
                          /\ \A i \in 1..(Len(r) - 1) :
                                r[i].candle.last_traded
                                    <= r[i + 1].candle.last_traded
                          /\ \A i \in 1..Len(r) :
                                r[i].candle.last_traded <= r[i].date
                          /\ previous_candle'[a] = r[Len(r)].candle
                 ELSE previous_candle'[a] = previous_candle[a]
       /\ pc' \in {"check", "fetch", "write"} =>
             \A a \in Assets :
                 previous_candle'[a].last_traded <= chunks'[idx'].end]_vars

\* C18 witness: in the second chunk an asset's first row repeats the
\* candle carried over from the first chunk, and the map now holds a
\* candle of the second chunk in its place.
C18_Witness ==
    /\ pc = "write"
    /\ idx = 2
    /\ \E a \in DOMAIN data :
          /\ data[a][1].candle.last_traded < ChunkStart(chunks[idx])
          /\ previous_candle[a].last_traded = chunks[idx].end

\* Every chunk of the plan has been handled once: skipped, or fetched and
\* then written or rejected as overlapping.
AllChunksOnce ==
    /\ idx = Len(chunks) + 1
    /\ \A i \in 1..Len(chunks) :
          OpsOf(chunks[i].end) \in {<<"check", "skip">>,
                                    <<"check", "fetch", "write">>,
                                    <<"check", "fetch", "overlap">>}
    /\ \A k \in 1..Len(log) :
          \E i \in 1..Len(chunks) : log[k].end = chunks[i].end

\* C19: a call of ingest() on a minute or daily bundle, when neither the
\* exchange nor the store fails, plans a finite, non-empty list of chunks
\* and eventually returns, having handled every planned chunk exactly
\* once.
C19_EventuallyDone ==
    (pc = "ready" /\ data_frequency \in {"minute", "daily"})
        ~> (pc = "done" /\ chunks # <<>> /\ AllChunksOnce)

\* C19 witness: a second run returned after skipping its first chunk and
\* fetching and writing its second.
C19_Witness ==
    /\ pc = "done"
    /\ run = 2
    /\ Len(chunks) = 2
    /\ OpsOf(chunks[1].end) = <<"check", "skip">>
    /\ OpsOf(chunks[2].end) = <<"check", "fetch", "write">>

====
